---------------------------- MODULE Spec2Model ----------------------------
(***************************************************************************)
(* A model of moto's KMS emulation: the request handlers of                *)
(* moto/kms/responses.py (class KmsResponse) on top of the per-region      *)
(* backend (moto/kms/models.py, which the handlers call through            *)
(* self.kms_backend).                                                      *)
(*                                                                         *)
(* Strings are sequences of one-character strings, byte strings are        *)
(* sequences of integers in 0..255, so that startswith, `in`, split,       *)
(* re.match and base64 are computed the way Python computes them.          *)
(***************************************************************************)
EXTENDS Integers, Sequences, FiniteSets, Bags, TLC

(***************************************************************************)
(* Bounds of the model.                                                    *)
(***************************************************************************)
\* number of identifiers create_key can hand out (keys per region)
MaxKeys == 2
\* longest plaintext a client submits, longest NumberOfBytes it asks for
MaxBytes == 2

(***************************************************************************)
(* Python string primitives.                                               *)
(***************************************************************************)
UpperLetters == {"A","B","C","D","E","F","G","H","I","J","K","L","M","N","O","P","Q","R","S","T","U","V","W","X","Y","Z"}

LowerLetters == {"a","b","c","d","e","f","g","h","i","j","k","l","m","n","o","p","q","r","s","t","u","v","w","x","y","z"}

Digits == {"0","1","2","3","4","5","6","7","8","9"}

\* str.startswith(prefix)
startswith(s, prefix) ==
    /\ Len(s) >= Len(prefix)
    /\ SubSeq(s, 1, Len(prefix)) = prefix

\* `sub in s` for strings: sub occurs as a contiguous substring of s
str_contains(sub, s) ==
    \E i \in 1..(Len(s) - Len(sub) + 1) : SubSeq(s, i, i + Len(sub) - 1) = sub

\* s.split(sep)[-1] for a one-character separator: what follows the last sep
split_last(s, sep) ==
    LET idx == {i \in 1..Len(s) : s[i] = sep}
    IN  IF idx = {} THEN s
        ELSE LET m == CHOOSE i \in idx : \A j \in idx : j <= i
             IN  SubSeq(s, m + 1, Len(s))

\* In Python's re, `$` matches at the end of the string and also just before
\* a newline that ends the string: the part of s a pattern `^...$` has to
\* match is s itself or s without its final "\n".
re_dollar_bodies(s) ==
    {s} \cup (IF Len(s) > 0 /\ s[Len(s)] = "\n" THEN {SubSeq(s, 1, Len(s) - 1)} ELSE {})

\* the character class [a-zA-Z0-9:/_-]
alias_char_class == UpperLetters \cup LowerLetters \cup Digits \cup {":", "/", "_", "-"}

\* re.match(r'^[a-zA-Z0-9:/_-]+$', alias_name)
re_match_alias_name(alias_name) ==
    \E b \in re_dollar_bodies(alias_name) :
        /\ Len(b) >= 1
        /\ \A i \in 1..Len(b) : b[i] \in alias_char_class

\* the character class [A-F0-9] under re.IGNORECASE
hex_char_class == Digits \cup {"A","B","C","D","E","F"} \cup {"a","b","c","d","e","f"}

\* re.match(r'^[A-F0-9]{8}-[A-F0-9]{4}-[A-F0-9]{4}-[A-F0-9]{4}-[A-F0-9]{12}$',
\*          key_id, re.IGNORECASE)
re_match_key_id(key_id) ==
    \E b \in re_dollar_bodies(key_id) :
        /\ Len(b) = 36
        /\ \A i \in 1..36 :
              IF i \in {9, 14, 19, 24} THEN b[i] = "-" ELSE b[i] \in hex_char_class

(***************************************************************************)
(* base64, as base64.b64encode / base64.b64decode compute it on byte       *)
(* strings: three bytes make four characters of the alphabet, a last       *)
(* group of one or two bytes is padded with "=".                           *)
(***************************************************************************)
b64_alphabet == <<"A","B","C","D","E","F","G","H","I","J","K","L","M","N","O","P","Q","R","S","T","U","V","W","X","Y","Z","a","b","c","d","e","f","g","h","i","j","k","l","m","n","o","p","q","r","s","t","u","v","w","x","y","z","0","1","2","3","4","5","6","7","8","9","+","/">>

b64_char(n) == b64_alphabet[n + 1]

b64_index == [c \in {b64_alphabet[i] : i \in 1..64} |-> CHOOSE i \in 1..64 : b64_alphabet[i] = c]

b64_value(c) == b64_index[c] - 1

RECURSIVE b64encode(_)
b64encode(bytes) ==
    IF Len(bytes) = 0 THEN <<>>
    ELSE IF Len(bytes) = 1 THEN
        <<b64_char(bytes[1] \div 4), b64_char((bytes[1] % 4) * 16), "=", "=">>
    ELSE IF Len(bytes) = 2 THEN
        <<b64_char(bytes[1] \div 4),
          b64_char((bytes[1] % 4) * 16 + bytes[2] \div 16),
          b64_char((bytes[2] % 16) * 4), "=">>
    ELSE
        <<b64_char(bytes[1] \div 4),
          b64_char((bytes[1] % 4) * 16 + bytes[2] \div 16),
          b64_char((bytes[2] % 16) * 4 + bytes[3] \div 64),
          b64_char(bytes[3] % 64)>>
        \o b64encode(SubSeq(bytes, 4, Len(bytes)))

\* The requests of the model carry well-formed base64 (a multiple of four
\* characters of the alphabet, padded); b64decode raises on anything else
\* before a handler reaches the backend.
RECURSIVE b64decode(_)
b64decode(chars) ==
    IF Len(chars) < 4 THEN <<>>
    ELSE
        LET v1 == b64_value(chars[1])
            v2 == b64_value(chars[2])
        IN  IF chars[3] = "=" THEN
                <<v1 * 4 + v2 \div 16>>
            ELSE IF chars[4] = "=" THEN
                LET v3 == b64_value(chars[3])
                IN  <<v1 * 4 + v2 \div 16, (v2 % 16) * 16 + v3 \div 4>>
            ELSE
                LET v3 == b64_value(chars[3])
                    v4 == b64_value(chars[4])
                IN  <<v1 * 4 + v2 \div 16, (v2 % 16) * 16 + v3 \div 4, (v3 % 4) * 64 + v4>>
                    \o b64decode(SubSeq(chars, 5, Len(chars)))


(***************************************************************************)
(* Module-level data of responses.py, and the values requests are made of. *)
(***************************************************************************)
\* reserved_aliases (responses.py)
reserved_aliases ==
    << <<"a","l","i","a","s","/","a","w","s","/","e","b","s">>,
       <<"a","l","i","a","s","/","a","w","s","/","s","3">>,
       <<"a","l","i","a","s","/","a","w","s","/","r","e","d","s","h","i","f","t">>,
       <<"a","l","i","a","s","/","a","w","s","/","r","d","s">> >>

\* `x in seq` for a Python list
list_contains(seq, x) == \E i \in 1..Len(seq) : seq[i] = x

\* the regions kms_backends is keyed by, and their spelling
Regions == {"us-east-1", "us-west-2"}

region_chars(region) ==
    IF region = "us-east-1" THEN <<"u","s","-","e","a","s","t","-","1">>
    ELSE <<"u","s","-","w","e","s","t","-","2">>

\* 'arn:aws:kms:{region}:012345678912:' as the handlers' messages spell it
arn_prefix(region) ==
    <<"a","r","n",":","a","w","s",":","k","m","s",":">> \o region_chars(region)
    \o <<":","0","1","2","3","4","5","6","7","8","9","1","2",":">>

\* the i-th identifier the identifier generator can hand out: UUID-shaped,
\* differing in the last hexadecimal digit
key_id_stem ==
    <<"a","b","c","d","e","f","0","1","-","2","3","4","5","-","6","7","8","9","-",
      "a","b","c","d","-","e","f","0","1","2","3","4","5","6","7","8">>

digit_chars == <<"1","2","3","4","5","6","7","8","9">>

generated_key_id(i) == key_id_stem \o <<digit_chars[i]>>

KeyIdPool == {generated_key_id(i) : i \in 1..MaxKeys}

\* str.upper() on the characters an identifier is made of
upper_char(c) ==
    CASE c = "a" -> "A" [] c = "b" -> "B" [] c = "c" -> "C"
      [] c = "d" -> "D" [] c = "e" -> "E" [] c = "f" -> "F"
      [] OTHER -> c

upper(s) == [i \in 1..Len(s) |-> upper_char(s[i])]

\* Key.arn: region, account placeholder and id
key_arn(region, id) == arn_prefix(region) \o <<"k","e","y","/">> \o id

(***************************************************************************)
(* The backend of one region (kms_backends[region]): the key registry      *)
(* `keys`, id -> Key, and the alias index `key_to_aliases`, target key id  *)
(* -> set of alias names.  A backend operation that raises KeyError        *)
(* returns KeyError; one that succeeds returns Returned(value).            *)
(***************************************************************************)
KeyError == [raised |-> TRUE]

Returned(v) == [raised |-> FALSE, value |-> v]

EmptyBackend == [keys |-> <<>>, key_to_aliases |-> <<>>]

\* Key(policy, key_usage, description, region) with a generated id
Key(id, policy, key_usage, description, region) ==
    [id |-> id,
     arn |-> key_arn(region, id),
     policy |-> policy,
     key_usage |-> key_usage,
     description |-> description,
     rotation_enabled |-> FALSE]

\* _parse_key_id that splits an ARN at its colons only: the resource type
\* 'key/' stays in front of the identifier
_parse_key_id_keeps_resource_type(key_id) ==
    IF str_contains(<<"a","r","n">>, key_id)
    THEN split_last(key_id, ":")
    ELSE key_id

\* _parse_key_id(key_id): the identifier an ARN ends in, or key_id itself
_parse_key_id(key_id) ==
    IF str_contains(<<"a","r","n">>, key_id)
    THEN split_last(split_last(key_id, ":"), "/")
    ELSE key_id

\* kms_backend.create_key: stores a new Key under its fresh identifier
backend_create_key(b, id, policy, key_usage, description, region) ==
    [b EXCEPT !.keys = (id :> Key(id, policy, key_usage, description, region)) @@ b.keys]

\* kms_backend.describe_key(id_or_arn): resolves to the identifier portion,
\* then looks the key up
backend_describe_key(b, key_id) ==
    LET id == _parse_key_id(key_id)
    IN  IF id \in DOMAIN b.keys THEN Returned(b.keys[id]) ELSE KeyError

\* kms_backend.list_keys(): the keys, in no particular order
backend_list_keys(b) == {b.keys[id] : id \in DOMAIN b.keys}

\* kms_backend.enable_key_rotation / disable_key_rotation
backend_set_key_rotation(b, key_id, flag) ==
    IF key_id \in DOMAIN b.keys
    THEN Returned([b EXCEPT !.keys[key_id].rotation_enabled = flag])
    ELSE KeyError

backend_enable_key_rotation(b, key_id) == backend_set_key_rotation(b, key_id, TRUE)

backend_disable_key_rotation(b, key_id) == backend_set_key_rotation(b, key_id, FALSE)

\* kms_backend.get_key_rotation_status
backend_get_key_rotation_status(b, key_id) ==
    IF key_id \in DOMAIN b.keys THEN Returned(b.keys[key_id].rotation_enabled) ELSE KeyError

\* kms_backend.put_key_policy(key_id, policy)
backend_put_key_policy(b, key_id, policy) ==
    IF key_id \in DOMAIN b.keys
    THEN Returned([b EXCEPT !.keys[key_id].policy = policy])
    ELSE KeyError

\* kms_backend.get_key_policy(key_id)
backend_get_key_policy(b, key_id) ==
    IF key_id \in DOMAIN b.keys THEN Returned(b.keys[key_id].policy) ELSE KeyError

\* kms_backend.alias_exists(name): whether name is a registered alias name,
\* looked for in the alias set of every target
backend_alias_exists(b, name) ==
    \E t \in DOMAIN b.key_to_aliases : name \in b.key_to_aliases[t]

\* kms_backend.add_alias(target_key_id, alias_name): stores the mapping; the
\* caller has validated
backend_add_alias(b, target_key_id, alias_name) ==
    LET old == IF target_key_id \in DOMAIN b.key_to_aliases
               THEN b.key_to_aliases[target_key_id] ELSE {}
    IN  [b EXCEPT !.key_to_aliases =
            (target_key_id :> (old \cup {alias_name})) @@ b.key_to_aliases]

\* kms_backend.delete_alias(alias_name): removes the mapping; a target left
\* without alias names is no entry of the index any more
backend_delete_alias(b, alias_name) ==
    [b EXCEPT !.key_to_aliases =
        [t \in {u \in DOMAIN b.key_to_aliases : b.key_to_aliases[u] # {alias_name}} |->
            b.key_to_aliases[t] \ {alias_name}]]

\* kms_backend.get_all_aliases(): target key id -> set of alias names
backend_get_all_aliases(b) == b.key_to_aliases

(***************************************************************************)
(* The envelope of the backend's encrypt / decrypt / generate_data_key.    *)
(* A ciphertext binds the resolved key identifier, the encryption context  *)
(* and the transformed plaintext:                                          *)
(*   <<length of id>> \o id \o <<number of context pairs>> \o pairs        *)
(*   \o plaintext with every byte complemented.                            *)
(***************************************************************************)
\* ord() of the characters identifiers and contexts are made of
ord(c) ==
    CASE c = "\n" -> 10 [] c = "-" -> 45
      [] c = "0" -> 48 [] c = "1" -> 49 [] c = "2" -> 50 [] c = "3" -> 51
      [] c = "4" -> 52 [] c = "5" -> 53 [] c = "6" -> 54 [] c = "7" -> 55
      [] c = "8" -> 56 [] c = "9" -> 57
      [] c = "A" -> 65 [] c = "B" -> 66 [] c = "C" -> 67 [] c = "D" -> 68
      [] c = "E" -> 69 [] c = "F" -> 70
      [] c = "a" -> 97 [] c = "b" -> 98 [] c = "c" -> 99 [] c = "d" -> 100
      [] c = "e" -> 101 [] c = "f" -> 102

ord_domain == hex_char_class \cup {"-", "\n"}

\* chr() on the codes of those characters
chr == [n \in {ord(c) : c \in ord_domain} |-> CHOOSE c \in ord_domain : ord(c) = n]

\* str.encode() / bytes.decode() of an identifier
encode_chars(s) == [i \in 1..Len(s) |-> ord(s[i])]

decodable(bytes) == \A i \in 1..Len(bytes) : bytes[i] \in DOMAIN chr

decode_bytes(bytes) == [i \in 1..Len(bytes) |-> chr[bytes[i]]]

\* an encryption context is a sequence of <<name, value>> pairs
RECURSIVE context_pairs(_)
context_pairs(ctx) ==
    IF ctx = <<>> THEN <<>>
    ELSE <<ord(ctx[1][1]), ord(ctx[1][2])>> \o context_pairs(Tail(ctx))

context_bytes(ctx) == <<Len(ctx)>> \o context_pairs(ctx)

\* the reversible transform of the plaintext
complement(bytes) == [i \in 1..Len(bytes) |-> 255 - bytes[i]]

\* kms_backend.encrypt(key_id, plaintext, encryption_context)
\*   -> (resolved key id, ciphertext); the key need not be registered
backend_encrypt(b, key_id, plaintext, encryption_context) ==
    LET id == _parse_key_id(key_id)
    IN  <<id, <<Len(id)>> \o encode_chars(id) \o context_bytes(encryption_context)
              \o complement(plaintext)>>

\* kms_backend.decrypt(ciphertext, encryption_context) -> (key id, plaintext);
\* KeyError for a ciphertext that is malformed, names no registered key, or
\* was made under another context
backend_decrypt(b, ciphertext, encryption_context) ==
    IF Len(ciphertext) < 1 \/ Len(ciphertext) < 1 + ciphertext[1] THEN KeyError
    ELSE
        LET n == ciphertext[1]
            idb == SubSeq(ciphertext, 2, n + 1)
            rest == SubSeq(ciphertext, n + 2, Len(ciphertext))
            want == context_bytes(encryption_context)
        IN  IF ~decodable(idb) THEN KeyError
            ELSE IF decode_bytes(idb) \notin DOMAIN b.keys THEN KeyError
            ELSE IF ~startswith(rest, want) THEN KeyError
            ELSE Returned(<<decode_bytes(idb),
                            complement(SubSeq(rest, Len(want) + 1, Len(rest)))>>)

\* the length generate_data_key draws: number_of_bytes ({n}) when given,
\* else ({}) the length key_spec implies
data_key_length(key_spec, number_of_bytes) ==
    IF number_of_bytes # {} THEN CHOOSE n \in number_of_bytes : TRUE
    ELSE IF key_spec = "AES_128" THEN 16 ELSE 32

\* kms_backend.generate_data_key(key_id, key_spec, number_of_bytes,
\* encryption_context) -> (plaintext, key id, ciphertext), `random` being the
\* bytes the random source delivered
backend_generate_data_key(b, key_id, key_spec, number_of_bytes, encryption_context, random) ==
    <<random, _parse_key_id(key_id),
      backend_encrypt(b, key_id, random, encryption_context)[2]>>

(***************************************************************************)
(* State.                                                                  *)
(***************************************************************************)
VARIABLES
    kms_backends,   \* region -> backend (models.kms_backends)
    last,           \* the response to the latest request
    held,           \* the ciphertext blob the client got last, and from what
    toggled,        \* region -> key id -> latest successful rotation toggle
    put_policy,     \* region -> key id -> document of the latest successful
                    \*   put_key_policy, the creation policy before any
    in_flight,      \* handler thread -> the alias request it is serving and
                    \*   the line of the handler it has reached
    before          \* the backend as it was when the requests in flight began

vars == <<kms_backends, last, held, toggled, put_policy, in_flight, before>>

NoResponse ==
    [op |-> "none", region |-> "none", args |-> <<>>, status |-> "none",
     http |-> 0, type |-> "", message |-> "", out |-> <<>>]

NoBlob == [blob |-> <<>>, from |-> "none"]

\* the threads that serve requests at the same time
Threads == {"t1", "t2"}

Idle ==
    [pc |-> "idle", op |-> "none", region |-> "none", alias_name |-> <<>>,
     target_key_id |-> <<>>, response |-> NoResponse]

Init ==
    /\ kms_backends = [r \in Regions |-> EmptyBackend]
    /\ last = NoResponse
    /\ held = NoBlob
    /\ toggled = [r \in Regions |-> <<>>]
    /\ put_policy = [r \in Regions |-> <<>>]
    /\ in_flight = [t \in Threads |-> Idle]
    /\ before = EmptyBackend

\* a handler that returns: HTTP 200 and a body
Ok(op, region, args, out) ==
    [op |-> op, region |-> region, args |-> args, status |-> "ok",
     http |-> 200, type |-> "", message |-> "", out |-> out]

\* a handler that raises JSONResponseError(http, ..., body = {'__type': type,
\* 'message': message}) (or a subclass of it), or answers with an error status
Fail(op, region, args, http, type, message) ==
    [op |-> op, region |-> region, args |-> args, status |-> "fail",
     http |-> http, type |-> type, message |-> message, out |-> <<>>]

(***************************************************************************)
(* The handlers of KmsResponse.  Each is an operator from the region's     *)
(* backend and the request's parameters to the backend it leaves and the   *)
(* response it gives, and an action that applies it to kms_backends.       *)
(***************************************************************************)
Outcome(b, response) == [backend |-> b, response |-> response]

alias_prefix == <<"a","l","i","a","s","/">>

\* KmsResponse.create_key; `id` is the identifier the backend generates
create_key(b, region, id, policy, key_usage, description) ==
    LET nb == backend_create_key(b, id, policy, key_usage, description, region)
    IN  Outcome(nb, Ok("create_key", region,
                       [policy |-> policy, key_usage |-> key_usage, description |-> description],
                       nb.keys[id]))

\* KmsResponse.describe_key
describe_key(b, region, key_id) ==
    LET got == backend_describe_key(b, key_id)
        args == [key_id |-> key_id]
    IN  IF got.raised
        THEN Outcome(b, Fail("describe_key", region, args, 404, "", ""))
        ELSE Outcome(b, Ok("describe_key", region, args, got.value))

\* KmsResponse.list_keys: the KeyArn / KeyId pairs, in the backend's order
list_keys(b, region) ==
    Outcome(b, Ok("list_keys", region, <<>>,
                  [Keys |-> SetToBag({[KeyArn |-> k.arn, KeyId |-> k.id] : k \in backend_list_keys(b)}),
                   Truncated |-> FALSE]))

\* create_alias with the alias added before the name is looked up: the
\* AlreadyExists failure then leaves a changed alias index
create_alias_adds_before_lookup(b, region, alias_name, target_key_id) ==
    LET args == [alias_name |-> alias_name, target_key_id |-> target_key_id]
    IN  IF ~startswith(alias_name, alias_prefix) THEN
            Outcome(b, Fail("create_alias", region, args, 400, "ValidationException",
                            "Invalid identifier"))
        ELSE IF list_contains(reserved_aliases, alias_name) THEN
            Outcome(b, Fail("create_alias", region, args, 400, "NotAuthorizedException", ""))
        ELSE IF str_contains(<<":">>, alias_name) THEN
            Outcome(b, Fail("create_alias", region, args, 400, "ValidationException",
                            "{alias_name} contains invalid characters for an alias"))
        ELSE IF ~re_match_alias_name(alias_name) THEN
            Outcome(b, Fail("create_alias", region, args, 400, "ValidationException",
                            "1 validation error detected"))
        ELSE IF backend_alias_exists(b, target_key_id) THEN
            Outcome(b, Fail("create_alias", region, args, 400, "ValidationException",
                            "Aliases must refer to keys. Not aliases"))
        ELSE IF backend_alias_exists(b, alias_name) THEN
            Outcome(backend_add_alias(b, target_key_id, alias_name),
                    Fail("create_alias", region, args, 400, "AlreadyExistsException",
                         "An alias with the name {arn} already exists"))
        ELSE
            Outcome(backend_add_alias(b, target_key_id, alias_name),
                    Ok("create_alias", region, args, <<>>))

\* create_alias without the test for a reserved name
create_alias_without_reserved_test(b, region, alias_name, target_key_id) ==
    LET args == [alias_name |-> alias_name, target_key_id |-> target_key_id]
    IN  IF ~startswith(alias_name, alias_prefix) THEN
            Outcome(b, Fail("create_alias", region, args, 400, "ValidationException",
                            "Invalid identifier"))
        ELSE IF str_contains(<<":">>, alias_name) THEN
            Outcome(b, Fail("create_alias", region, args, 400, "ValidationException",
                            "{alias_name} contains invalid characters for an alias"))
        ELSE IF ~re_match_alias_name(alias_name) THEN
            Outcome(b, Fail("create_alias", region, args, 400, "ValidationException",
                            "1 validation error detected"))
        ELSE IF backend_alias_exists(b, target_key_id) THEN
            Outcome(b, Fail("create_alias", region, args, 400, "ValidationException",
                            "Aliases must refer to keys. Not aliases"))
        ELSE IF backend_alias_exists(b, alias_name) THEN
            Outcome(b, Fail("create_alias", region, args, 400, "AlreadyExistsException",
                            "An alias with the name {arn} already exists"))
        ELSE
            Outcome(backend_add_alias(b, target_key_id, alias_name),
                    Ok("create_alias", region, args, <<>>))

\* create_alias without the lookup of the name
create_alias_without_lookup(b, region, alias_name, target_key_id) ==
    LET args == [alias_name |-> alias_name, target_key_id |-> target_key_id]
    IN  IF ~startswith(alias_name, alias_prefix) THEN
            Outcome(b, Fail("create_alias", region, args, 400, "ValidationException",
                            "Invalid identifier"))
        ELSE IF list_contains(reserved_aliases, alias_name) THEN
            Outcome(b, Fail("create_alias", region, args, 400, "NotAuthorizedException", ""))
        ELSE IF str_contains(<<":">>, alias_name) THEN
            Outcome(b, Fail("create_alias", region, args, 400, "ValidationException",
                            "{alias_name} contains invalid characters for an alias"))
        ELSE IF ~re_match_alias_name(alias_name) THEN
            Outcome(b, Fail("create_alias", region, args, 400, "ValidationException",
                            "1 validation error detected"))
        ELSE IF backend_alias_exists(b, target_key_id) THEN
            Outcome(b, Fail("create_alias", region, args, 400, "ValidationException",
                            "Aliases must refer to keys. Not aliases"))
        ELSE
            Outcome(backend_add_alias(b, target_key_id, alias_name),
                    Ok("create_alias", region, args, <<>>))

\* create_alias that takes a target for an alias when the target already has
\* aliases
create_alias_rejects_used_target(b, region, alias_name, target_key_id) ==
    LET args == [alias_name |-> alias_name, target_key_id |-> target_key_id]
    IN  IF ~startswith(alias_name, alias_prefix) THEN
            Outcome(b, Fail("create_alias", region, args, 400, "ValidationException",
                            "Invalid identifier"))
        ELSE IF list_contains(reserved_aliases, alias_name) THEN
            Outcome(b, Fail("create_alias", region, args, 400, "NotAuthorizedException", ""))
        ELSE IF str_contains(<<":">>, alias_name) THEN
            Outcome(b, Fail("create_alias", region, args, 400, "ValidationException",
                            "{alias_name} contains invalid characters for an alias"))
        ELSE IF ~re_match_alias_name(alias_name) THEN
            Outcome(b, Fail("create_alias", region, args, 400, "ValidationException",
                            "1 validation error detected"))
        ELSE IF \/ backend_alias_exists(b, target_key_id)
                \/ target_key_id \in DOMAIN backend_get_all_aliases(b) THEN
            Outcome(b, Fail("create_alias", region, args, 400, "ValidationException",
                            "Aliases must refer to keys. Not aliases"))
        ELSE IF backend_alias_exists(b, alias_name) THEN
            Outcome(b, Fail("create_alias", region, args, 400, "AlreadyExistsException",
                            "An alias with the name {arn} already exists"))
        ELSE
            Outcome(backend_add_alias(b, target_key_id, alias_name),
                    Ok("create_alias", region, args, <<>>))

\* KmsResponse.create_alias
create_alias(b, region, alias_name, target_key_id) ==
    LET args == [alias_name |-> alias_name, target_key_id |-> target_key_id]
    IN  IF ~startswith(alias_name, alias_prefix) THEN
            Outcome(b, Fail("create_alias", region, args, 400, "ValidationException",
                            "Invalid identifier"))
        ELSE IF list_contains(reserved_aliases, alias_name) THEN
            Outcome(b, Fail("create_alias", region, args, 400, "NotAuthorizedException", ""))
        ELSE IF str_contains(<<":">>, alias_name) THEN
            Outcome(b, Fail("create_alias", region, args, 400, "ValidationException",
                            "{alias_name} contains invalid characters for an alias"))
        ELSE IF ~re_match_alias_name(alias_name) THEN
            Outcome(b, Fail("create_alias", region, args, 400, "ValidationException",
                            "1 validation error detected"))
        ELSE IF backend_alias_exists(b, target_key_id) THEN
            Outcome(b, Fail("create_alias", region, args, 400, "ValidationException",
                            "Aliases must refer to keys. Not aliases"))
        ELSE IF backend_alias_exists(b, alias_name) THEN
            Outcome(b, Fail("create_alias", region, args, 400, "AlreadyExistsException",
                            "An alias with the name {arn} already exists"))
        ELSE
            Outcome(backend_add_alias(b, target_key_id, alias_name),
                    Ok("create_alias", region, args, <<>>))

\* delete_alias that answers without calling the backend's delete_alias
delete_alias_without_removal(b, region, alias_name) ==
    LET args == [alias_name |-> alias_name]
    IN  IF ~startswith(alias_name, alias_prefix) THEN
            Outcome(b, Fail("delete_alias", region, args, 400, "ValidationException",
                            "Invalid identifier"))
        ELSE IF ~backend_alias_exists(b, alias_name) THEN
            Outcome(b, Fail("delete_alias", region, args, 400, "NotFoundException",
                            "Alias {arn} is not found."))
        ELSE
            Outcome(b, Ok("delete_alias", region, args, <<>>))

\* delete_alias that looks the name up before it tests the prefix
delete_alias_lookup_first(b, region, alias_name) ==
    LET args == [alias_name |-> alias_name]
    IN  IF ~backend_alias_exists(b, alias_name) THEN
            Outcome(b, Fail("delete_alias", region, args, 400, "NotFoundException",
                            "Alias {arn} is not found."))
        ELSE IF ~startswith(alias_name, alias_prefix) THEN
            Outcome(b, Fail("delete_alias", region, args, 400, "ValidationException",
                            "Invalid identifier"))
        ELSE
            Outcome(backend_delete_alias(b, alias_name),
                    Ok("delete_alias", region, args, <<>>))

\* KmsResponse.delete_alias
delete_alias(b, region, alias_name) ==
    LET args == [alias_name |-> alias_name]
    IN  IF ~startswith(alias_name, alias_prefix) THEN
            Outcome(b, Fail("delete_alias", region, args, 400, "ValidationException",
                            "Invalid identifier"))
        ELSE IF ~backend_alias_exists(b, alias_name) THEN
            Outcome(b, Fail("delete_alias", region, args, 400, "NotFoundException",
                            "Alias {arn} is not found."))
        ELSE
            Outcome(backend_delete_alias(b, alias_name),
                    Ok("delete_alias", region, args, <<>>))

\* KmsResponse.list_aliases: the reserved aliases, then one entry per alias
\* name of every target of get_all_aliases().  The entries form a bag: the
\* order of the backend's entries is the iteration order of a dict of sets.
list_aliases(b, region) ==
    LET backend_aliases == backend_get_all_aliases(b)
        reserved == {[AliasArn |-> arn_prefix(region) \o reserved_aliases[i],
                      AliasName |-> reserved_aliases[i]] : i \in 1..Len(reserved_aliases)}
        stored == UNION {{[AliasArn |-> arn_prefix(region) \o alias_name,
                            AliasName |-> alias_name,
                            TargetKeyId |-> target_key_id] :
                           alias_name \in backend_aliases[target_key_id]} :
                         target_key_id \in DOMAIN backend_aliases}
    IN  Outcome(b, Ok("list_aliases", region, <<>>,
                      [Truncated |-> FALSE, Aliases |-> SetToBag(reserved) (+) SetToBag(stored)]))

\* _assert_valid_key_id(key_id): TRUE when it returns, FALSE when it raises
\* the 404 NotFoundException ' Invalid keyId'
_assert_valid_key_id(key_id) == re_match_key_id(key_id)

\* _assert_default_policy that never raises
_assert_default_policy_never_raises(policy_name) == TRUE

\* _assert_default_policy(policy_name): TRUE when it returns, FALSE when it
\* raises the 404 NotFoundException 'No such policy exists'
_assert_default_policy(policy_name) == policy_name = "default"

InvalidKeyId(op, region, args) ==
    Fail(op, region, args, 404, "NotFoundException", " Invalid keyId")

NoSuchPolicy(op, region, args) ==
    Fail(op, region, args, 404, "NotFoundException", "No such policy exists")

KeyDoesNotExist(op, region, args) ==
    Fail(op, region, args, 404, "NotFoundException", "Key {arn} does not exist")

\* KmsResponse.enable_key_rotation
enable_key_rotation(b, region, key_id) ==
    LET args == [key_id |-> key_id]
    IN  IF ~_assert_valid_key_id(key_id) THEN
            Outcome(b, InvalidKeyId("enable_key_rotation", region, args))
        ELSE
            LET got == backend_enable_key_rotation(b, key_id)
            IN  IF got.raised
                THEN Outcome(b, KeyDoesNotExist("enable_key_rotation", region, args))
                ELSE Outcome(got.value, Ok("enable_key_rotation", region, args, <<>>))

\* disable_key_rotation calling the backend's enable_key_rotation
disable_key_rotation_enables(b, region, key_id) ==
    LET args == [key_id |-> key_id]
    IN  IF ~re_match_key_id(key_id) THEN
            [backend |-> b,
             response |-> Fail("disable_key_rotation", region, args, 404,
                               "NotFoundException", " Invalid keyId")]
        ELSE
            LET got == backend_enable_key_rotation(b, key_id)
            IN  IF got.raised
                THEN [backend |-> b,
                      response |-> Fail("disable_key_rotation", region, args, 404,
                                        "NotFoundException", "Key {arn} does not exist")]
                ELSE [backend |-> got.value,
                      response |-> Ok("disable_key_rotation", region, args, <<>>)]

\* KmsResponse.disable_key_rotation
disable_key_rotation(b, region, key_id) ==
    LET args == [key_id |-> key_id]
    IN  IF ~_assert_valid_key_id(key_id) THEN
            Outcome(b, InvalidKeyId("disable_key_rotation", region, args))
        ELSE
            LET got == backend_disable_key_rotation(b, key_id)
            IN  IF got.raised
                THEN Outcome(b, KeyDoesNotExist("disable_key_rotation", region, args))
                ELSE Outcome(got.value, Ok("disable_key_rotation", region, args, <<>>))

\* get_key_rotation_status that calls the backend's enable_key_rotation
\* before it reads the flag
get_key_rotation_status_enables(b, region, key_id) ==
    LET args == [key_id |-> key_id]
    IN  IF ~_assert_valid_key_id(key_id) THEN
            Outcome(b, InvalidKeyId("get_key_rotation_status", region, args))
        ELSE
            LET got == backend_enable_key_rotation(b, key_id)
            IN  IF got.raised
                THEN Outcome(b, KeyDoesNotExist("get_key_rotation_status", region, args))
                ELSE Outcome(got.value,
                             Ok("get_key_rotation_status", region, args,
                                [KeyRotationEnabled |-> TRUE]))

\* KmsResponse.get_key_rotation_status
get_key_rotation_status(b, region, key_id) ==
    LET args == [key_id |-> key_id]
    IN  IF ~_assert_valid_key_id(key_id) THEN
            Outcome(b, InvalidKeyId("get_key_rotation_status", region, args))
        ELSE
            LET got == backend_get_key_rotation_status(b, key_id)
            IN  IF got.raised
                THEN Outcome(b, KeyDoesNotExist("get_key_rotation_status", region, args))
                ELSE Outcome(b, Ok("get_key_rotation_status", region, args,
                                   [KeyRotationEnabled |-> got.value]))

\* KmsResponse.put_key_policy
put_key_policy(b, region, key_id, policy_name, policy) ==
    LET args == [key_id |-> key_id, policy_name |-> policy_name, policy |-> policy]
    IN  IF ~_assert_valid_key_id(key_id) THEN
            Outcome(b, InvalidKeyId("put_key_policy", region, args))
        ELSE IF ~_assert_default_policy(policy_name) THEN
            Outcome(b, NoSuchPolicy("put_key_policy", region, args))
        ELSE
            LET got == backend_put_key_policy(b, key_id, policy)
            IN  IF got.raised
                THEN Outcome(b, KeyDoesNotExist("put_key_policy", region, args))
                ELSE Outcome(got.value, Ok("put_key_policy", region, args, <<>>))

\* KmsResponse.get_key_policy
get_key_policy(b, region, key_id, policy_name) ==
    LET args == [key_id |-> key_id, policy_name |-> policy_name]
    IN  IF ~_assert_valid_key_id(key_id) THEN
            Outcome(b, InvalidKeyId("get_key_policy", region, args))
        ELSE IF ~_assert_default_policy(policy_name) THEN
            Outcome(b, NoSuchPolicy("get_key_policy", region, args))
        ELSE
            LET got == backend_get_key_policy(b, key_id)
            IN  IF got.raised
                THEN Outcome(b, KeyDoesNotExist("get_key_policy", region, args))
                ELSE Outcome(b, Ok("get_key_policy", region, args, [Policy |-> got.value]))

\* KmsResponse.list_key_policies
list_key_policies(b, region, key_id) ==
    LET args == [key_id |-> key_id]
    IN  IF ~_assert_valid_key_id(key_id) THEN
            Outcome(b, InvalidKeyId("list_key_policies", region, args))
        ELSE IF backend_describe_key(b, key_id).raised THEN
            Outcome(b, KeyDoesNotExist("list_key_policies", region, args))
        ELSE
            Outcome(b, Ok("list_key_policies", region, args,
                          [Truncated |-> FALSE, PolicyNames |-> <<"default">>]))

\* encrypt that looks the key up and fails NotFound when the region has no
\* such key
encrypt_requires_key(b, region, key_id, Plaintext, encryption_context) ==
    LET args == [key_id |-> key_id, Plaintext |-> Plaintext,
                 encryption_context |-> encryption_context]
        plaintext == b64decode(Plaintext)
        parsed_key_id == _parse_key_id(key_id)
    IN  IF ~_assert_valid_key_id(parsed_key_id) THEN
            Outcome(b, InvalidKeyId("encrypt", region, args))
        ELSE IF backend_describe_key(b, key_id).raised THEN
            Outcome(b, KeyDoesNotExist("encrypt", region, args))
        ELSE
            LET got == backend_encrypt(b, key_id, plaintext, encryption_context)
            IN  Outcome(b, Ok("encrypt", region, args,
                              [CiphertextBlob |-> b64encode(got[2]), KeyId |-> got[1]]))

\* KmsResponse.encrypt; Plaintext is the request's base64 text
encrypt(b, region, key_id, Plaintext, encryption_context) ==
    LET args == [key_id |-> key_id, Plaintext |-> Plaintext,
                 encryption_context |-> encryption_context]
        plaintext == b64decode(Plaintext)
        parsed_key_id == _parse_key_id(key_id)
    IN  IF ~_assert_valid_key_id(parsed_key_id) THEN
            Outcome(b, InvalidKeyId("encrypt", region, args))
        ELSE
            LET got == backend_encrypt(b, key_id, plaintext, encryption_context)
            IN  Outcome(b, Ok("encrypt", region, args,
                              [CiphertextBlob |-> b64encode(got[2]), KeyId |-> got[1]]))

\* decrypt answering a KeyError of the backend as the key-not-found failure
decrypt_answers_not_found(b, region, CiphertextBlob, encryption_context) ==
    LET args == [CiphertextBlob |-> CiphertextBlob, encryption_context |-> encryption_context]
        ciphertext == b64decode(CiphertextBlob)
        got == backend_decrypt(b, ciphertext, encryption_context)
    IN  IF got.raised THEN
            [backend |-> b,
             response |-> Fail("decrypt", region, args, 404, "NotFoundException",
                               "Key {arn} does not exist")]
        ELSE
            [backend |-> b,
             response |-> Ok("decrypt", region, args,
                             [KeyId |-> got.value[1], Plaintext |-> b64encode(got.value[2])])]

\* KmsResponse.decrypt; CiphertextBlob is the request's base64 text
decrypt(b, region, CiphertextBlob, encryption_context) ==
    LET args == [CiphertextBlob |-> CiphertextBlob, encryption_context |-> encryption_context]
        ciphertext == b64decode(CiphertextBlob)
        got == backend_decrypt(b, ciphertext, encryption_context)
    IN  IF got.raised THEN
            Outcome(b, Fail("decrypt", region, args, 400, "InvalidCiphertextException",
                            "The specified ciphertext has been corrupted or is otherwise invalid."))
        ELSE
            Outcome(b, Ok("decrypt", region, args,
                          [KeyId |-> got.value[1], Plaintext |-> b64encode(got.value[2])]))

\* generate_data_key that unpacks the backend's triple in the wrong order:
\* the ciphertext is answered as the plaintext and the plaintext as the blob
generate_data_key_swaps_outputs(b, region, key_id, key_spec, number_of_bytes, encryption_context, random) ==
    LET args == [key_id |-> key_id, key_spec |-> key_spec, number_of_bytes |-> number_of_bytes,
                 encryption_context |-> encryption_context]
        parsed_key_id == _parse_key_id(key_id)
    IN  IF ~_assert_valid_key_id(parsed_key_id) THEN
            Outcome(b, InvalidKeyId("generate_data_key", region, args))
        ELSE
            LET got == backend_generate_data_key(b, key_id, key_spec, number_of_bytes,
                                                 encryption_context, random)
            IN  Outcome(b, Ok("generate_data_key", region, args,
                              [CiphertextBlob |-> b64encode(got[1]),
                               KeyId |-> key_id,
                               Plaintext |-> b64encode(got[3])]))

\* KmsResponse.generate_data_key; `random` is what the backend's random
\* source delivers
generate_data_key(b, region, key_id, key_spec, number_of_bytes, encryption_context, random) ==
    LET args == [key_id |-> key_id, key_spec |-> key_spec, number_of_bytes |-> number_of_bytes,
                 encryption_context |-> encryption_context]
        parsed_key_id == _parse_key_id(key_id)
    IN  IF ~_assert_valid_key_id(parsed_key_id) THEN
            Outcome(b, InvalidKeyId("generate_data_key", region, args))
        ELSE
            LET got == backend_generate_data_key(b, key_id, key_spec, number_of_bytes,
                                                 encryption_context, random)
            IN  Outcome(b, Ok("generate_data_key", region, args,
                              [CiphertextBlob |-> b64encode(got[3]),
                               KeyId |-> key_id,
                               Plaintext |-> b64encode(got[1])]))

(***************************************************************************)
(* Actions: one request each, served by kms_backends[region].              *)
(***************************************************************************)
\* kms_backend that answers with one backend whatever the region: the
\* handler's outcome becomes the backend of every region
Serve_one_backend_for_all_regions(region, o) ==
    /\ \A t \in Threads : in_flight[t].pc = "idle"
    /\ kms_backends' = [r \in Regions |-> o.backend]
    /\ last' = o.response
    /\ UNCHANGED <<in_flight, before>>

\* a request served from its first line to its last while no other is in
\* flight: the handler's outcome becomes the region's backend and the response
Serve(region, o) ==
    /\ \A t \in Threads : in_flight[t].pc = "idle"
    /\ kms_backends' = [kms_backends EXCEPT ![region] = o.backend]
    /\ last' = o.response
    /\ UNCHANGED <<in_flight, before>>

\* the identifier generator delivers an identifier no key of the region has
CreateKey(region, ids, policy, key_usage, description) ==
    \E id \in ids \ DOMAIN kms_backends[region].keys :
        /\ Serve(region, create_key(kms_backends[region], region, id, policy, key_usage, description))
        /\ toggled' = [toggled EXCEPT ![region] = (id :> "none") @@ @]
        /\ put_policy' = [put_policy EXCEPT ![region] = (id :> policy) @@ @]
        /\ UNCHANGED held

DescribeKey(region, key_id) ==
    /\ Serve(region, describe_key(kms_backends[region], region, key_id))
    /\ UNCHANGED <<held, toggled, put_policy>>

ListKeys(region) ==
    /\ Serve(region, list_keys(kms_backends[region], region))
    /\ UNCHANGED <<held, toggled, put_policy>>

CreateAlias(region, alias_name, target_key_id) ==
    /\ Serve(region, create_alias(kms_backends[region], region, alias_name, target_key_id))
    /\ UNCHANGED <<held, toggled, put_policy>>

DeleteAlias(region, alias_name) ==
    /\ Serve(region, delete_alias(kms_backends[region], region, alias_name))
    /\ UNCHANGED <<held, toggled, put_policy>>

ListAliases(region) ==
    /\ Serve(region, list_aliases(kms_backends[region], region))
    /\ UNCHANGED <<held, toggled, put_policy>>

EnableKeyRotation(region, key_id) ==
    LET o == enable_key_rotation(kms_backends[region], region, key_id)
    IN  /\ Serve(region, o)
        /\ toggled' = IF o.response.status = "ok"
                      THEN [toggled EXCEPT ![region] = (key_id :> "enable") @@ @]
                      ELSE toggled
        /\ UNCHANGED <<held, put_policy>>

DisableKeyRotation(region, key_id) ==
    LET o == disable_key_rotation(kms_backends[region], region, key_id)
    IN  /\ Serve(region, o)
        /\ toggled' = IF o.response.status = "ok"
                      THEN [toggled EXCEPT ![region] = (key_id :> "disable") @@ @]
                      ELSE toggled
        /\ UNCHANGED <<held, put_policy>>

GetKeyRotationStatus(region, key_id) ==
    /\ Serve(region, get_key_rotation_status(kms_backends[region], region, key_id))
    /\ UNCHANGED <<held, toggled, put_policy>>

PutKeyPolicy(region, key_id, policy_name, policy) ==
    LET o == put_key_policy(kms_backends[region], region, key_id, policy_name, policy)
    IN  /\ Serve(region, o)
        /\ put_policy' = IF o.response.status = "ok"
                         THEN [put_policy EXCEPT ![region] = (key_id :> policy) @@ @]
                         ELSE put_policy
        /\ UNCHANGED <<held, toggled>>

GetKeyPolicy(region, key_id, policy_name) ==
    /\ Serve(region, get_key_policy(kms_backends[region], region, key_id, policy_name))
    /\ UNCHANGED <<held, toggled, put_policy>>

ListKeyPolicies(region, key_id) ==
    /\ Serve(region, list_key_policies(kms_backends[region], region, key_id))
    /\ UNCHANGED <<held, toggled, put_policy>>

\* the client encrypts `plaintext` and keeps the blob it is answered
Encrypt(region, key_id, plaintext, encryption_context) ==
    LET o == encrypt(kms_backends[region], region, key_id, b64encode(plaintext), encryption_context)
    IN  /\ Serve(region, o)
        /\ held' = IF o.response.status = "ok"
                   THEN [blob |-> o.response.out.CiphertextBlob, from |-> "encrypt",
                         region |-> region, key_id |-> key_id, plaintext |-> plaintext,
                         encryption_context |-> encryption_context]
                   ELSE held
        /\ UNCHANGED <<toggled, put_policy>>

\* the client submits a blob: the one it holds, or another
Decrypt(region, CiphertextBlob, encryption_context) ==
    /\ Serve(region, decrypt(kms_backends[region], region, CiphertextBlob, encryption_context))
    /\ UNCHANGED <<held, toggled, put_policy>>

\* the bytes the random source may deliver for a length
random_bytes(n) == {[i \in 1..n |-> v] : v \in {0, 255}}

GenerateDataKey(region, key_id, key_spec, number_of_bytes, encryption_context) ==
    \E random \in random_bytes(data_key_length(key_spec, number_of_bytes)) :
        LET o == generate_data_key(kms_backends[region], region, key_id, key_spec,
                                   number_of_bytes, encryption_context, random)
        IN  /\ Serve(region, o)
            /\ held' = IF o.response.status = "ok"
                       THEN [blob |-> o.response.out.CiphertextBlob, from |-> "generate_data_key",
                             region |-> region, key_id |-> key_id,
                             plaintext |-> b64decode(o.response.out.Plaintext),
                             encryption_context |-> encryption_context]
                       ELSE held
            /\ UNCHANGED <<toggled, put_policy>>

(***************************************************************************)
(* Alias requests served by two threads at once.  A handler runs its       *)
(* checks, alias_exists included, in one step, and calls add_alias or      *)
(* delete_alias in a later one: nothing in the handlers holds a lock       *)
(* between the two.                                                        *)
(***************************************************************************)
Answered(t, response) ==
    /\ in_flight' = [in_flight EXCEPT ![t] = [@ EXCEPT !.pc = "done", !.response = response]]
    /\ last' = response

\* create_alias up to the last alias_exists: the request fails a check, or
\* stands before add_alias
CreateAliasChecks(t, region, alias_name, target_key_id) ==
    LET o == create_alias(kms_backends[region], region, alias_name, target_key_id)
        request == [pc |-> "add_alias", op |-> "create_alias", region |-> region,
                    alias_name |-> alias_name, target_key_id |-> target_key_id,
                    response |-> o.response]
    IN  /\ in_flight[t].pc = "idle"
        /\ before' = IF \A u \in Threads : in_flight[u].pc = "idle"
                     THEN kms_backends[region] ELSE before
        /\ IF o.response.status = "fail"
           THEN /\ in_flight' = [in_flight EXCEPT ![t] = [request EXCEPT !.pc = "done"]]
                /\ last' = o.response
           ELSE /\ in_flight' = [in_flight EXCEPT ![t] = request]
                /\ last' = last
        /\ UNCHANGED <<kms_backends, held, toggled, put_policy>>

\* create_alias from add_alias on
CreateAliasAdds(t) ==
    LET request == in_flight[t]
    IN  /\ request.pc = "add_alias"
        /\ kms_backends' = [kms_backends EXCEPT ![request.region] =
                               backend_add_alias(@, request.target_key_id, request.alias_name)]
        /\ Answered(t, request.response)
        /\ UNCHANGED <<held, toggled, put_policy, before>>

\* delete_alias up to alias_exists
DeleteAliasChecks(t, region, alias_name) ==
    LET o == delete_alias(kms_backends[region], region, alias_name)
        request == [pc |-> "delete_alias", op |-> "delete_alias", region |-> region,
                    alias_name |-> alias_name, target_key_id |-> <<>>,
                    response |-> o.response]
    IN  /\ in_flight[t].pc = "idle"
        /\ before' = IF \A u \in Threads : in_flight[u].pc = "idle"
                     THEN kms_backends[region] ELSE before
        /\ IF o.response.status = "fail"
           THEN /\ in_flight' = [in_flight EXCEPT ![t] = [request EXCEPT !.pc = "done"]]
                /\ last' = o.response
           ELSE /\ in_flight' = [in_flight EXCEPT ![t] = request]
                /\ last' = last
        /\ UNCHANGED <<kms_backends, held, toggled, put_policy>>

\* delete_alias from the backend's delete_alias on
DeleteAliasRemoves(t) ==
    LET request == in_flight[t]
    IN  /\ request.pc = "delete_alias"
        /\ kms_backends' = [kms_backends EXCEPT ![request.region] =
                               backend_delete_alias(@, request.alias_name)]
        /\ Answered(t, request.response)
        /\ UNCHANGED <<held, toggled, put_policy, before>>

(***************************************************************************)
(* The requests clients send.                                              *)
(***************************************************************************)
HomeRegion == "us-east-1"

Policies == {"P1", "P2"}

PolicyNames == {"default", "other"}

\* alias names: two well-formed ones, the bare prefix, names breaking one
\* rule of create_alias or several, and the reserved ones
alias_a == <<"a","l","i","a","s","/","a">>

alias_b == <<"a","l","i","a","s","/","b">>

WellFormedAliasNames == {alias_a, alias_b}

BrokenAliasNames ==
    { <<"n","a","m","e">>,                         \* no prefix
      <<"a",":","!">>,                             \* no prefix, a colon, a bad character
      <<"a","l","i","a","s","/","a",":","b">>,     \* a colon
      <<"a","l","i","a","s","/","a",":","!">>,     \* a colon and a bad character
      <<"a","l","i","a","s","/","a","!">> }        \* a bad character

ReservedAliasNames == {reserved_aliases[i] : i \in 1..Len(reserved_aliases)}

AliasNameInputs ==
    WellFormedAliasNames \cup {alias_prefix} \cup BrokenAliasNames \cup ReservedAliasNames

\* targets of create_alias: identifiers create_key has or has not handed out
\* yet, and an alias name
TargetInputs == KeyIdPool \cup {alias_a}

\* key references: generated identifiers, one in upper case, one as an ARN,
\* and a malformed one
malformed_key_id == <<"m","y","-","k","e","y","-","i","d">>

KeyIdInputs ==
    KeyIdPool \cup {upper(generated_key_id(1)), key_arn(HomeRegion, generated_key_id(1)),
                    malformed_key_id}

\* key references of the envelope operations: a generated identifier, bare
\* and as an ARN, and a malformed one
CryptoKeyIds == {generated_key_id(1)}

CryptoKeyInputs == CryptoKeyIds \cup {key_arn(HomeRegion, generated_key_id(1)), malformed_key_id}

\* plaintexts of up to MaxBytes bytes
PlaintextInputs == {[i \in 1..n |-> v] : n \in 0..MaxBytes, v \in {0, 255}}

ContextInputs == { <<>>, << <<"c","a">> >>, << <<"c","b">> >> }

\* blobs a client may submit to decrypt: the one it holds, that one cut
\* short, and blobs no encrypt produced
BlobInputs ==
    {held.blob, SubSeq(held.blob, 1, Len(held.blob) - 4), b64encode(<<104, 105>>)}

(***************************************************************************)
(* Specifications.  SpecAlias: keys and aliases.  SpecKeys: keys, their    *)
(* rotation flag and policy.  SpecCrypto: keys and the envelope            *)
(* operations.  Spec: every handler, on fewer inputs.                      *)
(***************************************************************************)
NextAlias ==
    \/ CreateKey(HomeRegion, KeyIdPool, "P1", "ENCRYPT_DECRYPT", "")
    \/ \E n \in AliasNameInputs, t \in TargetInputs : CreateAlias(HomeRegion, n, t)
    \/ \E n \in AliasNameInputs : DeleteAlias(HomeRegion, n)
    \/ ListAliases(HomeRegion)

SpecAlias == Init /\ [][NextAlias]_vars

NextKeys ==
    \/ \E p \in Policies : CreateKey(HomeRegion, KeyIdPool, p, "ENCRYPT_DECRYPT", "")
    \/ \E k \in KeyIdInputs : DescribeKey(HomeRegion, k)
    \/ ListKeys(HomeRegion)
    \/ \E k \in KeyIdInputs : EnableKeyRotation(HomeRegion, k)
    \/ \E k \in KeyIdInputs : DisableKeyRotation(HomeRegion, k)
    \/ \E k \in KeyIdInputs : GetKeyRotationStatus(HomeRegion, k)
    \/ \E k \in KeyIdInputs, n \in PolicyNames, p \in Policies : PutKeyPolicy(HomeRegion, k, n, p)
    \/ \E k \in KeyIdInputs, n \in PolicyNames : GetKeyPolicy(HomeRegion, k, n)
    \/ \E k \in KeyIdInputs : ListKeyPolicies(HomeRegion, k)

SpecKeys == Init /\ [][NextKeys]_vars

NextCrypto ==
    \/ CreateKey(HomeRegion, CryptoKeyIds, "P1", "ENCRYPT_DECRYPT", "")
    \/ \E k \in CryptoKeyInputs, p \in PlaintextInputs, c \in ContextInputs :
          Encrypt(HomeRegion, k, p, c)
    \/ \E blob \in BlobInputs, c \in ContextInputs : Decrypt(HomeRegion, blob, c)
    \/ \E k \in CryptoKeyInputs, n \in 1..MaxBytes, c \in ContextInputs :
          GenerateDataKey(HomeRegion, k, "AES_256", {n}, c)
    \/ \E k \in CryptoKeyIds, spec \in {"AES_128", "AES_256"} :
          GenerateDataKey(HomeRegion, k, spec, {}, <<>>)

SpecCrypto == Init /\ [][NextCrypto]_vars

\* the inputs of Spec
FewKeyIds == {generated_key_id(1)}

FewKeyIdInputs == FewKeyIds \cup {key_arn(HomeRegion, generated_key_id(1)), malformed_key_id}

FewAliasNames == {alias_a, <<"n","a","m","e">>, reserved_aliases[2]}

\* targets of create_alias in Spec: a generated identifier, an alias name and
\* a malformed identifier
FewTargets == FewKeyIds \cup {alias_a, malformed_key_id}

FewPlaintexts == {<<104>>}

FewContexts == { <<>>, << <<"c","a">> >> }

Next ==
    \/ \E p \in Policies : CreateKey(HomeRegion, FewKeyIds, p, "ENCRYPT_DECRYPT", "")
    \/ \E k \in FewKeyIdInputs : DescribeKey(HomeRegion, k)
    \/ ListKeys(HomeRegion)
    \/ \E n \in FewAliasNames, t \in FewTargets : CreateAlias(HomeRegion, n, t)
    \/ \E n \in FewAliasNames : DeleteAlias(HomeRegion, n)
    \/ ListAliases(HomeRegion)
    \/ \E k \in FewKeyIdInputs : EnableKeyRotation(HomeRegion, k)
    \/ \E k \in FewKeyIdInputs : DisableKeyRotation(HomeRegion, k)
    \/ \E k \in FewKeyIdInputs : GetKeyRotationStatus(HomeRegion, k)
    \/ \E k \in FewKeyIdInputs, n \in PolicyNames, p \in Policies : PutKeyPolicy(HomeRegion, k, n, p)
    \/ \E k \in FewKeyIdInputs, n \in PolicyNames : GetKeyPolicy(HomeRegion, k, n)
    \/ \E k \in FewKeyIdInputs : ListKeyPolicies(HomeRegion, k)
    \/ \E k \in FewKeyIdInputs, p \in FewPlaintexts, c \in FewContexts : Encrypt(HomeRegion, k, p, c)
    \/ \E blob \in BlobInputs, c \in FewContexts : Decrypt(HomeRegion, blob, c)
    \/ \E k \in FewKeyIdInputs : GenerateDataKey(HomeRegion, k, "AES_256", {1}, <<>>)

Spec == Init /\ [][Next]_vars

\* SpecRegistry: the key registry under create_key with every policy, usage
\* and description, and the operations that read or rewrite a key's record
KeyUsages == {"ENCRYPT_DECRYPT", "SIGN_VERIFY"}

Descriptions == {"", "d"}

NextRegistry ==
    \/ \E p \in Policies, u \in KeyUsages, d \in Descriptions :
          CreateKey(HomeRegion, KeyIdPool, p, u, d)
    \/ \E k \in KeyIdInputs : DescribeKey(HomeRegion, k)
    \/ ListKeys(HomeRegion)
    \/ \E k \in KeyIdPool, p \in Policies : PutKeyPolicy(HomeRegion, k, "default", p)
    \/ \E k \in KeyIdPool : EnableKeyRotation(HomeRegion, k)

SpecRegistry == Init /\ [][NextRegistry]_vars

\* SpecRegions: requests to the backends of two regions
NextRegions ==
    \E r \in Regions :
        \/ \E p \in Policies : CreateKey(r, FewKeyIds, p, "ENCRYPT_DECRYPT", "")
        \/ \E k \in FewKeyIds : DescribeKey(r, k)
        \/ ListKeys(r)
        \/ \E t \in FewKeyIds : CreateAlias(r, alias_a, t)
        \/ DeleteAlias(r, alias_a)
        \/ ListAliases(r)
        \/ \E k \in FewKeyIds : EnableKeyRotation(r, k)
        \/ \E k \in FewKeyIds : GetKeyRotationStatus(r, k)
        \/ \E k \in FewKeyIds, p \in Policies : PutKeyPolicy(r, k, "default", p)
        \/ \E k \in FewKeyIds : GetKeyPolicy(r, k, "default")

SpecRegions == Init /\ [][NextRegions]_vars

\* SpecThreads: keys and aliases set up by requests served one at a time,
\* then one alias request per thread, served at the same time
NextThreads ==
    \/ CreateKey(HomeRegion, KeyIdPool, "P1", "ENCRYPT_DECRYPT", "")
    \/ \E k \in KeyIdPool : CreateAlias(HomeRegion, alias_a, k)
    \/ DeleteAlias(HomeRegion, alias_a)
    \/ \E t \in Threads, k \in KeyIdPool : CreateAliasChecks(t, HomeRegion, alias_a, k)
    \/ \E t \in Threads : CreateAliasAdds(t)
    \/ \E t \in Threads : DeleteAliasChecks(t, HomeRegion, alias_a)
    \/ \E t \in Threads : DeleteAliasRemoves(t)

SpecThreads == Init /\ [][NextThreads]_vars

(***************************************************************************)
(* Properties.                                                             *)
(***************************************************************************)
\* the alias names registered in a backend, and where a name points
registered_names(b) == UNION {b.key_to_aliases[t] : t \in DOMAIN b.key_to_aliases}

targets_of(b, name) == {t \in DOMAIN b.key_to_aliases : name \in b.key_to_aliases[t]}

\* the six rules of alias creation as the design states them: the number of
\* the first rule a request breaks against backend b, 0 when it breaks none
first_broken_rule(b, alias_name, target_key_id) ==
    IF ~startswith(alias_name, alias_prefix) THEN 1
    ELSE IF alias_name \in ReservedAliasNames THEN 2
    ELSE IF \E i \in 1..Len(alias_name) : alias_name[i] = ":" THEN 3
    ELSE IF \E i \in 1..Len(alias_name) : alias_name[i] \notin alias_char_class THEN 4
    ELSE IF ~(target_key_id \in DOMAIN b.keys /\ target_key_id \notin registered_names(b)) THEN 5
    ELSE IF alias_name \in registered_names(b) THEN 6
    ELSE 0

\* the failure each rule answers with: <<type, message>>
failure_of_rule(rule) ==
    CASE rule = 1 -> <<"ValidationException", "Invalid identifier">>
      [] rule = 2 -> <<"NotAuthorizedException", "">>
      [] rule = 3 -> <<"ValidationException", "{alias_name} contains invalid characters for an alias">>
      [] rule = 4 -> <<"ValidationException", "1 validation error detected">>
      [] rule = 5 -> <<"ValidationException", "Aliases must refer to keys. Not aliases">>
      [] rule = 6 -> <<"AlreadyExistsException", "An alias with the name {arn} already exists">>

\* C1: create_alias applies the six rules in order and stops at the first one
\* broken: a request that breaks rules fails with the failure of the
\* lowest-numbered rule it breaks and changes nothing, and the alias is added
\* only when the request breaks none (rule 5: the target is a real key and
\* not an alias).
C1_ChecksInOrder ==
    [][last'.op = "create_alias" =>
         LET b == kms_backends[last'.region]
             rule == first_broken_rule(b, last'.args.alias_name, last'.args.target_key_id)
         IN  IF rule = 0
             THEN /\ last'.status = "ok"
                  /\ kms_backends'[last'.region] =
                        backend_add_alias(b, last'.args.target_key_id, last'.args.alias_name)
             ELSE /\ last'.status = "fail"
                  /\ <<last'.type, last'.message>> = failure_of_rule(rule)
                  /\ kms_backends' = kms_backends]_vars

\* C2: a request that is answered with a failure leaves every region's key
\* registry, alias index, policies and rotation flags as they were.
C2_NoMutationOnFailure ==
    [][last'.status = "fail" => kms_backends' = kms_backends]_vars

\* C2 witness: a create_alias refused as AlreadyExists, in a region that holds
\* a key and an alias.
C2_Witness ==
    /\ last.op = "create_alias"
    /\ last.status = "fail"
    /\ last.type = "AlreadyExistsException"
    /\ DOMAIN kms_backends[HomeRegion].keys # {}
    /\ registered_names(kms_backends[HomeRegion]) # {}

\* the entries of a list_aliases response that carry a given name
listed_entries(name) == {e \in BagToSet(last.out.Aliases) : e.AliasName = name}

RECURSIVE sum_copies(_, _)
sum_copies(entries, bag) ==
    IF entries = {} THEN 0
    ELSE LET e == CHOOSE x \in entries : TRUE
         IN  CopiesIn(e, bag) + sum_copies(entries \ {e}, bag)

\* C3: an alias name is registered at most once: no name belongs to the alias
\* sets of two targets, and list_aliases lists no name twice.
C3_AliasNamesUnique ==
    /\ \A r \in Regions : \A name \in registered_names(kms_backends[r]) :
          Cardinality(targets_of(kms_backends[r], name)) = 1
    /\ last.op = "list_aliases" =>
          \A e \in BagToSet(last.out.Aliases) :
              sum_copies(listed_entries(e.AliasName), last.out.Aliases) = 1

\* C3 witness: list_aliases answered while two names are registered, for two
\* different targets.
C3_Witness ==
    /\ last.op = "list_aliases"
    /\ \E t1, t2 \in DOMAIN kms_backends[HomeRegion].key_to_aliases :
          /\ t1 # t2
          /\ alias_a \in kms_backends[HomeRegion].key_to_aliases[t1]
          /\ alias_b \in kms_backends[HomeRegion].key_to_aliases[t2]

\* a valid, non-reserved alias name: the prefix, then one or more characters
\* of the class, none of them a colon
valid_alias_name(name) ==
    /\ startswith(name, alias_prefix)
    /\ name \notin ReservedAliasNames
    /\ Len(name) > Len(alias_prefix)
    /\ \A i \in 1..Len(name) : name[i] \in alias_char_class \ {":"}

C5_TargetIsARealKey ==
    /\ [][(/\ last'.op = "create_alias"
           /\ \/ last'.args.target_key_id \notin DOMAIN kms_backends[last'.region].keys
              \/ last'.args.target_key_id \in registered_names(kms_backends[last'.region])) =>
            /\ last'.status = "fail"
            /\ kms_backends' = kms_backends]_vars
    /\ [](\A r \in Regions :
            DOMAIN kms_backends[r].key_to_aliases \subseteq DOMAIN kms_backends[r].keys)

\* C6: a blob that encrypt answered for a registered key, named by its id or
\* by its ARN, decrypts under the context it was made with to that key's id
\* and the plaintext, and under any other context fails as an invalid
\* ciphertext, not as NotFound.
C6_RoundTrip ==
    (/\ last.op = "decrypt"
     /\ held.from = "encrypt"
     /\ last.region = held.region
     /\ last.args.CiphertextBlob = held.blob
     /\ \E id \in DOMAIN kms_backends[held.region].keys :
           held.key_id \in {id, kms_backends[held.region].keys[id].arn}) =>
       LET id == CHOOSE k \in DOMAIN kms_backends[held.region].keys :
                    held.key_id \in {k, kms_backends[held.region].keys[k].arn}
       IN  IF last.args.encryption_context = held.encryption_context
           THEN /\ last.status = "ok"
                /\ last.out.KeyId = id
                /\ b64decode(last.out.Plaintext) = held.plaintext
           ELSE /\ last.status = "fail"
                /\ last.type = "InvalidCiphertextException"

\* C6 witness: the blob of a two-byte plaintext encrypted under a context for
\* a key named by its ARN has been decrypted.
C6_Witness ==
    /\ last.op = "decrypt"
    /\ last.status = "ok"
    /\ held.from = "encrypt"
    /\ last.args.CiphertextBlob = held.blob
    /\ held.key_id = key_arn(HomeRegion, generated_key_id(1))
    /\ Len(held.plaintext) = 2
    /\ held.encryption_context # <<>>

\* the four reserved alias names
four_reserved_names ==
    { <<"a","l","i","a","s","/","a","w","s","/","e","b","s">>,
      <<"a","l","i","a","s","/","a","w","s","/","s","3">>,
      <<"a","l","i","a","s","/","a","w","s","/","r","e","d","s","h","i","f","t">>,
      <<"a","l","i","a","s","/","a","w","s","/","r","d","s">> }

\* C7: in every reachable state no reserved alias is stored in an alias
\* index, list_aliases lists all four of them, and create_alias of a
\* reserved name fails NotAuthorized whatever the target.
C7_ReservedAliases ==
    /\ \A r \in Regions : registered_names(kms_backends[r]) \cap four_reserved_names = {}
    /\ last.op = "list_aliases" =>
          \A name \in four_reserved_names :
              \E e \in BagToSet(last.out.Aliases) : e.AliasName = name
    /\ (last.op = "create_alias" /\ last.args.alias_name \in four_reserved_names) =>
          /\ last.status = "fail"
          /\ last.type = "NotAuthorizedException"

\* C7 witness: list_aliases answered in a region whose index holds an alias.
C7_Witness ==
    /\ last.op = "list_aliases"
    /\ registered_names(kms_backends[HomeRegion]) # {}
    /\ Cardinality(BagToSet(last.out.Aliases)) > Cardinality(four_reserved_names)

\* the pattern ^alias/[A-Za-z0-9:/_-]+$
matches_alias_pattern(name) ==
    /\ startswith(name, alias_prefix)
    /\ Len(name) > Len(alias_prefix)
    /\ \A i \in 1..Len(name) : name[i] \in alias_char_class

\* C8: create_alias of a name that does not match ^alias/[A-Za-z0-9:/_-]+$ or
\* that holds a colon fails as a validation failure and registers nothing,
\* the bare 'alias/' included.
C8_MalformedNamesRejected ==
    /\ (/\ last.op = "create_alias"
        /\ \/ ~matches_alias_pattern(last.args.alias_name)
           \/ \E i \in 1..Len(last.args.alias_name) : last.args.alias_name[i] = ":") =>
          /\ last.status = "fail"
          /\ last.type = "ValidationException"
    /\ \A r \in Regions : \A name \in registered_names(kms_backends[r]) :
          /\ matches_alias_pattern(name)
          /\ \A i \in 1..Len(name) : name[i] # ":"

\* the canonical 8-4-4-4-12 shape of a key identifier
canonical_shape(key_id) ==
    /\ Len(key_id) = 36
    /\ \A i \in 1..36 :
          IF i \in {9, 14, 19, 24} THEN key_id[i] = "-" ELSE key_id[i] \in hex_char_class

rotation_ops == {"enable_key_rotation", "disable_key_rotation", "get_key_rotation_status"}

\* C9: the rotation operations fail NotFound for a key id that is malformed
\* or not registered; get_key_rotation_status of a registered key answers
\* true exactly when the latest toggle of that key was enable_key_rotation,
\* and so false for a key no toggle has touched.
C9_RotationStatus ==
    /\ (/\ last.op \in rotation_ops
        /\ \/ ~canonical_shape(last.args.key_id)
           \/ last.args.key_id \notin DOMAIN kms_backends[last.region].keys) =>
          /\ last.status = "fail"
          /\ last.type = "NotFoundException"
          /\ last.http = 404
    /\ (/\ last.op = "get_key_rotation_status"
        /\ last.args.key_id \in DOMAIN kms_backends[last.region].keys) =>
          /\ last.status = "ok"
          /\ last.out.KeyRotationEnabled = (toggled[last.region][last.args.key_id] = "enable")
    /\ \A r \in Regions : \A k \in DOMAIN kms_backends[r].keys :
          kms_backends[r].keys[k].rotation_enabled = (toggled[r][k] = "enable")

\* C9 witness: the status of a key answered true while another key's latest
\* toggle was disable_key_rotation.
C9_Witness ==
    /\ last.op = "get_key_rotation_status"
    /\ last.status = "ok"
    /\ last.out.KeyRotationEnabled
    /\ \E k \in DOMAIN toggled[HomeRegion] :
          k # last.args.key_id /\ toggled[HomeRegion][k] = "disable"

policy_ops == {"put_key_policy", "get_key_policy"}

\* what C10 says of a policy name "default", and of the stored document
policy_default_name_part ==
    /\ (/\ last.op \in policy_ops
        /\ last.args.policy_name = "default"
        /\ last.args.key_id \notin DOMAIN kms_backends[last.region].keys) =>
          /\ last.status = "fail"
          /\ last.type = "NotFoundException"
          /\ last.message # "No such policy exists"
    /\ (/\ last.op = "get_key_policy"
        /\ last.args.policy_name = "default"
        /\ last.args.key_id \in DOMAIN kms_backends[last.region].keys) =>
          /\ last.status = "ok"
          /\ last.out.Policy = put_policy[last.region][last.args.key_id]
    /\ \A r \in Regions : \A k \in DOMAIN kms_backends[r].keys :
          kms_backends[r].keys[k].policy = put_policy[r][k]

\* C10 as stated: put_key_policy and get_key_policy with a policy name other
\* than "default" fail with the 'no such policy' NotFound, whatever the key
\* id, and leave the stored policy; with "default" they fail with the key
\* NotFound for a key id that is no key's; else get_key_policy answers the
\* document of the latest successful put_key_policy, or the creation policy.
C10_AsStated ==
    /\ (last.op \in policy_ops /\ last.args.policy_name # "default") =>
          /\ last.status = "fail"
          /\ last.type = "NotFoundException"
          /\ last.message = "No such policy exists"
    /\ policy_default_name_part

\* C10 amended: the 'no such policy' NotFound answers a policy name other
\* than "default" when the key id has the canonical shape (registered or
\* not); a malformed key id is answered with the ' Invalid keyId' NotFound
\* whatever the policy name.  The rest as stated.
C10_PolicyStore ==
    /\ (last.op \in policy_ops /\ last.args.policy_name # "default") =>
          /\ last.status = "fail"
          /\ last.type = "NotFoundException"
          /\ last.message = IF canonical_shape(last.args.key_id)
                            THEN "No such policy exists" ELSE " Invalid keyId"
    /\ policy_default_name_part

\* C10 witness: get_key_policy of a registered key with the policy name
\* "other" has failed.
C10_Witness ==
    /\ last.op = "get_key_policy"
    /\ last.args.policy_name = "other"
    /\ last.args.key_id \in DOMAIN kms_backends[HomeRegion].keys
    /\ last.status = "fail"

\* the operations that take a key identifier, and those of them that accept
\* an ARN in its place
key_id_ops ==
    {"describe_key", "enable_key_rotation", "disable_key_rotation", "get_key_rotation_status",
     "put_key_policy", "get_key_policy", "list_key_policies", "encrypt", "generate_data_key"}

arn_ops == {"describe_key", "encrypt", "generate_data_key"}

\* the identifier a key reference names to an operation: the last segment of
\* an ARN where the operation accepts ARNs, the reference itself elsewhere
resolved_id(op, key_id) ==
    IF op \in arn_ops /\ startswith(key_id, <<"a","r","n",":">>)
    THEN split_last(split_last(key_id, ":"), "/")
    ELSE key_id

\* C11: every operation that takes a key identifier fails NotFound and
\* changes nothing when the identifier (resolved from an ARN where ARNs are
\* accepted) has not the canonical shape; so does create_alias, of a valid
\* name, for a target that has not the canonical shape.
C11_ShapeCheckedFirst ==
    [][/\ (/\ last'.op \in key_id_ops
           /\ ~canonical_shape(resolved_id(last'.op, last'.args.key_id))) =>
             /\ last'.status = "fail"
             /\ last'.http = 404
             /\ kms_backends' = kms_backends
       /\ (/\ last'.op = "create_alias"
           /\ valid_alias_name(last'.args.alias_name)
           /\ ~canonical_shape(last'.args.target_key_id)) =>
             /\ last'.status = "fail"
             /\ last'.type = "NotFoundException"
             /\ kms_backends' = kms_backends]_vars

\* what C12 says of create_key, and of which describe_key requests succeed:
\* create_key succeeds with an identifier no key of the region has and
\* stores the record it answers; keys are never deleted; describe_key by the
\* identifier or the ARN of a key of the region succeeds, and fails NotFound
\* (404) for any other identifier
registry_part ==
    /\ [][last'.op = "create_key" =>
            /\ last'.status = "ok"
            /\ last'.out.id \notin DOMAIN kms_backends[last'.region].keys
            /\ last'.out = [id |-> last'.out.id,
                            arn |-> key_arn(last'.region, last'.out.id),
                            policy |-> last'.args.policy,
                            key_usage |-> last'.args.key_usage,
                            description |-> last'.args.description,
                            rotation_enabled |-> FALSE]
            /\ kms_backends'[last'.region].keys[last'.out.id] = last'.out]_vars
    /\ [][\A r \in Regions :
            DOMAIN kms_backends[r].keys \subseteq DOMAIN kms_backends'[r].keys]_vars
    /\ [](last.op = "describe_key" =>
            LET id == resolved_id("describe_key", last.args.key_id)
            IN  IF id \in DOMAIN kms_backends[last.region].keys
                THEN /\ last.status = "ok"
                     /\ last.out.id = id
                     /\ last.out.arn = key_arn(last.region, id)
                ELSE /\ last.status = "fail"
                     /\ last.http = 404)

listed_user_aliases ==
    {<<e.AliasName, e.TargetKeyId>> :
        e \in {x \in BagToSet(last.out.Aliases) : "TargetKeyId" \in DOMAIN x}}

\* C13: a request to one region leaves the backend of every other region as
\* it was, and what describe_key, list_keys, list_aliases and the alias
\* lookups of create_alias and delete_alias see is the requested region's
\* keys and aliases, whatever the other regions hold.
C13_RegionIsolation ==
    /\ [][\A r \in Regions \ {last'.region} : kms_backends'[r] = kms_backends[r]]_vars
    /\ [][/\ (last'.op = "create_alias" /\ last'.status = "fail") =>
               last'.args.alias_name \in registered_names(kms_backends[last'.region])
          /\ last'.op = "delete_alias" =>
               (last'.status = "ok") =
                   (last'.args.alias_name \in registered_names(kms_backends[last'.region]))]_vars
    /\ [](/\ last.op = "describe_key" =>
               (last.status = "ok") =
                   (last.args.key_id \in DOMAIN kms_backends[last.region].keys)
          /\ last.op = "list_keys" =>
               {e.KeyId : e \in BagToSet(last.out.Keys)} = DOMAIN kms_backends[last.region].keys
          /\ last.op = "list_aliases" =>
               listed_user_aliases =
                   {<<n, t>> \in registered_names(kms_backends[last.region])
                                 \X DOMAIN kms_backends[last.region].key_to_aliases :
                        n \in kms_backends[last.region].key_to_aliases[t]})

\* C13 witness: create_alias of a name has succeeded in a region while the
\* other region holds an alias of that name, and a key the first has not.
C13_Witness ==
    \E a, b \in Regions :
        /\ a # b
        /\ last.op = "create_alias"
        /\ last.status = "ok"
        /\ last.region = b
        /\ last.args.alias_name \in registered_names(kms_backends[a])
        /\ last.args.alias_name \in registered_names(kms_backends[b])
        /\ DOMAIN kms_backends[a].keys # {}
        /\ DOMAIN kms_backends[b].keys = {}

\* the backends the two requests leave when served one after the other, in
\* either order, from backend b
after_both(b, region, first, second) ==
    LET serve(bb, request) ==
            IF request.op = "create_alias"
            THEN create_alias(bb, region, request.alias_name, request.target_key_id).backend
            ELSE delete_alias(bb, region, request.alias_name).backend
    IN  {serve(serve(b, first), second), serve(serve(b, second), first)}

\* C14: when the two threads have answered two create_alias requests for the
\* same valid name and different targets, at most one of them has succeeded
\* and the name has at most one target; when they have answered a
\* delete_alias and a create_alias of the same name, the backend is one that
\* serving the two one after the other, in some order, leaves.
C14_NoInconsistentInterleaving ==
    \A t1, t2 \in Threads :
        (/\ t1 # t2
         /\ in_flight[t1].pc = "done"
         /\ in_flight[t2].pc = "done"
         /\ in_flight[t1].region = in_flight[t2].region
         /\ in_flight[t1].alias_name = in_flight[t2].alias_name
         /\ valid_alias_name(in_flight[t1].alias_name)) =>
            LET region == in_flight[t1].region
                name == in_flight[t1].alias_name
            IN  /\ (/\ in_flight[t1].op = "create_alias"
                    /\ in_flight[t2].op = "create_alias"
                    /\ in_flight[t1].target_key_id # in_flight[t2].target_key_id) =>
                       /\ ~(/\ in_flight[t1].response.status = "ok"
                            /\ in_flight[t2].response.status = "ok")
                       /\ Cardinality(targets_of(kms_backends[region], name)) <= 1
                /\ (/\ in_flight[t1].op = "delete_alias"
                    /\ in_flight[t2].op = "create_alias") =>
                       kms_backends[region] \in
                           after_both(before, region, in_flight[t1], in_flight[t2])

\* C15: delete_alias of a reserved alias name fails NotAuthorized, as
\* create_alias of one does.
C15_ReservedAliasNotDeletable ==
    (/\ last.op \in {"delete_alias", "create_alias"}
     /\ last.args.alias_name \in four_reserved_names) =>
        /\ last.status = "fail"
        /\ last.type = "NotAuthorizedException"

C17_PermissiveAboutKeyExistence ==
    /\ [](last.op \in {"encrypt", "generate_data_key"} =>
            IF canonical_shape(resolved_id(last.op, last.args.key_id))
            THEN last.status = "ok"
            ELSE /\ last.status = "fail"
                 /\ last.type = "NotFoundException"
                 /\ last.http = 404)
    /\ [][last'.op \in {"encrypt", "generate_data_key"} => kms_backends' = kms_backends]_vars

\* C17 witness: encrypt has succeeded for a key named by an ARN, in a region
\* where no key is registered.
C17_Witness ==
    /\ last.op = "encrypt"
    /\ last.status = "ok"
    /\ last.args.key_id = key_arn(HomeRegion, generated_key_id(1))
    /\ DOMAIN kms_backends[HomeRegion].keys = {}

\* C18: generate_data_key with number_of_bytes = n answers a plaintext of n
\* bytes; the blob it answers for a registered key, named by its id or by
\* its ARN, decrypts under the request's context to that plaintext and that
\* key's id.
C18_DataKeyRoundTrip ==
    /\ (/\ last.op = "generate_data_key"
        /\ last.status = "ok") =>
          /\ \A n \in last.args.number_of_bytes : Len(b64decode(last.out.Plaintext)) = n
          /\ held.from = "generate_data_key"
          /\ held.blob = last.out.CiphertextBlob
          /\ held.plaintext = b64decode(last.out.Plaintext)
    /\ (/\ last.op = "decrypt"
        /\ held.from = "generate_data_key"
        /\ last.region = held.region
        /\ last.args.CiphertextBlob = held.blob
        /\ last.args.encryption_context = held.encryption_context
        /\ \E id \in DOMAIN kms_backends[held.region].keys :
              held.key_id \in {id, key_arn(held.region, id)}) =>
          /\ last.status = "ok"
          /\ b64decode(last.out.Plaintext) = held.plaintext
          /\ held.key_id \in {last.out.KeyId, key_arn(held.region, last.out.KeyId)}

\* C18 witness: the blob of a two-byte data key generated under a context for
\* a key named by its ARN has been decrypted.
C18_Witness ==
    /\ last.op = "decrypt"
    /\ last.status = "ok"
    /\ held.from = "generate_data_key"
    /\ last.args.CiphertextBlob = held.blob
    /\ held.key_id = key_arn(HomeRegion, generated_key_id(1))
    /\ Len(held.plaintext) = 2
    /\ held.encryption_context # <<>>

read_only_ops ==
    {"describe_key", "list_keys", "list_aliases", "get_key_rotation_status",
     "get_key_policy", "list_key_policies", "encrypt", "decrypt"}

\* the response to the request of response r, sent again to backend b
repeated(b, r) ==
    CASE r.op = "describe_key" -> describe_key(b, r.region, r.args.key_id).response
      [] r.op = "list_keys" -> list_keys(b, r.region).response
      [] r.op = "list_aliases" -> list_aliases(b, r.region).response
      [] r.op = "get_key_rotation_status" ->
            get_key_rotation_status(b, r.region, r.args.key_id).response
      [] r.op = "get_key_policy" ->
            get_key_policy(b, r.region, r.args.key_id, r.args.policy_name).response
      [] r.op = "list_key_policies" -> list_key_policies(b, r.region, r.args.key_id).response
      [] r.op = "encrypt" ->
            encrypt(b, r.region, r.args.key_id, r.args.Plaintext,
                    r.args.encryption_context).response
      [] r.op = "decrypt" ->
            decrypt(b, r.region, r.args.CiphertextBlob, r.args.encryption_context).response

=============================================================================
